---- MODULE Spec2Model ----
(***************************************************************************)
(* A model of nsscheduler/updown.py: the scale transition of one workload  *)
(* (modify_workload), the per-namespace batch throttle                     *)
(* (wait_on_batch_full), namespace resolution (resolve_namespaces) and the *)
(* up / down loops that drive them over a cluster.                         *)
(*                                                                         *)
(* Python strings are sequences of one-character strings, so that str()    *)
(* and int() are conversions and re.compile(...).match() is a matcher.     *)
(* Dictionaries are functions whose domain is the set of keys present.     *)
(***************************************************************************)
EXTENDS Integers, Sequences, FiniteSets, TLC

VARIABLES
    cluster,            \* cluster[kind][ns]: the workloads of a kind in a namespace, in listing order
    all_namespaces,     \* the names of the namespaces that exist, in listing order
    scale_up_counters,  \* the module-level dict of line 19
    calls,              \* history of the modify_workload calls made on the workload under test
    waits,              \* history of the wait_on_batch_full calls made by the throttle driver
    query,              \* argument and result of the resolve_namespaces call under test
    pc,                 \* where the running up / down invocation stands
    frame,              \* its arguments and local variables
    trace,              \* the modify_workload calls it has made so far, in order
    throttle_trace,     \* the wait_on_batch_full calls it has made so far, in order
    parked,             \* a second invocation, suspended while the first one runs
    budget,             \* invocations and client failures still allowed by the bounds
    ns_state_cache,     \* the module-level dict of line 20
    ns_state_cache_update_time,  \* the module-level dict of line 21
    now,                \* time.time(), in seconds
    readers             \* readers[t]: the get_state invocation of thread t

vars == <<cluster, all_namespaces, scale_up_counters, calls, waits, query,
          pc, frame, trace, throttle_trace, parked, budget,
          ns_state_cache, ns_state_cache_update_time, now, readers>>

NoUpDown == <<pc, frame, trace, throttle_trace, parked, budget>>

NoGetState == <<ns_state_cache, ns_state_cache_update_time, now, readers>>

NoInvocation == <<NoUpDown, NoGetState>>

(***************************************************************************)
(* Bounds of the model.                                                    *)
(***************************************************************************)
MaxReplicas == 11
MaxCalls == 3
MaxBatchSize == 2
MaxStartCounter == 2
MaxWaitCalls == 5
MaxPatterns == 2
MaxInvocations == 1
MaxFailures == 1
MaxRuns == 2
MaxQueries == 3
MaxTime == 4
MaxPodReplicas == 3

(***************************************************************************)
(* Python values.                                                          *)
(***************************************************************************)
EmptyDict == [k \in {} |-> 0]

DigitChars == <<"0", "1", "2", "3", "4", "5", "6", "7", "8", "9">>

IsDigit(c) == \E i \in 1..10 : DigitChars[i] = c

DigitValue(c) == (CHOOSE i \in 1..10 : DigitChars[i] = c) - 1

str_units(n) == <<DigitChars[(n % 10) + 1]>>

\* str(n) of a non-negative int: its decimal digits, most significant first.
RECURSIVE str(_)
str(n) ==
    IF n < 10 THEN <<DigitChars[n + 1]>>
    ELSE Append(str(n \div 10), DigitChars[(n % 10) + 1])

\* The strings over digits and letters that int() accepts: one digit or more.
is_int_literal(s) == Len(s) > 0 /\ \A i \in 1..Len(s) : IsDigit(s[i])

\* int(s) of an accepted string; int() raises ValueError on the others.
RECURSIVE int(_)
int(s) ==
    IF Len(s) = 1 THEN DigitValue(s[1])
    ELSE 10 * int(SubSeq(s, 1, Len(s) - 1)) + DigitValue(s[Len(s)])

(***************************************************************************)
(* Names.                                                                  *)
(***************************************************************************)
UP == "up"
DOWN == "down"
NamespaceAction == {UP, DOWN}

updown_annotation == "ns.scheduler/replicas"

team_a_dev == <<"t", "e", "a", "m", "-", "a", "-", "d", "e", "v">>
team_a_prod == <<"t", "e", "a", "m", "-", "a", "-", "p", "r", "o", "d">>
team_b == <<"t", "e", "a", "m", "-", "b">>

NamespaceNames == {team_a_dev, team_a_prod, team_b}

Kinds == {"Deployment", "StatefulSet"}

(***************************************************************************)
(* A workload object as the client returns it: the fields the code reads.  *)
(***************************************************************************)
Workload(ns, name, replicas, annotations) ==
    [metadata |-> [name |-> name, namespace |-> ns, annotations |-> annotations],
     spec |-> [replicas |-> replicas]]

Annotated(s) == updown_annotation :> s

NoWorkloads == [kind \in Kinds |-> [ns \in NamespaceNames |-> <<>>]]

\* app_v1.list_namespaced_deployment / list_namespaced_stateful_set: a copy
\* of the cluster's objects at the time of the call.
list_namespaced(kind, ns) == cluster[kind][ns]

\* What the API server makes of a patch body: a merge into the annotations
\* and a replacement of spec.replicas.
merge_patch(obj, body) ==
    [metadata |->
        [obj.metadata EXCEPT !.annotations =
            IF "metadata" \in DOMAIN body
            THEN body["metadata"].annotations @@ obj.metadata.annotations
            ELSE obj.metadata.annotations],
     spec |->
        [obj.spec EXCEPT !.replicas =
            IF "spec" \in DOMAIN body THEN body["spec"].replicas
            ELSE obj.spec.replicas]]

\* updater(name=..., namespace=..., body=patch) when it succeeds.
patch_namespaced(c, kind, name, namespace, body) ==
    [c EXCEPT ![kind][namespace] =
        [i \in DOMAIN @ |->
            IF @[i].metadata.name = name THEN merge_patch(@[i], body) ELSE @[i]]]

(***************************************************************************)
(* modify_workload, lines 172-204.                                         *)
(***************************************************************************)
\* Line 174 raises ValueError when the annotation is present and int()
\* rejects it; the default 1 of .get() is an int already.
raises_ValueError(workload) ==
    /\ updown_annotation \in DOMAIN workload.metadata.annotations
    /\ ~is_int_literal(workload.metadata.annotations[updown_annotation])

before_down_replicas(workload) ==
    IF updown_annotation \in DOMAIN workload.metadata.annotations
    THEN int(workload.metadata.annotations[updown_annotation])
    ELSE 1

desired_replicas_ignores_annotation(action, workload) ==
    IF action = DOWN THEN 0
    ELSE IF action = UP /\ workload.spec.replicas = 0 THEN 1
    ELSE workload.spec.replicas

desired_replicas(action, workload) ==
    IF action = DOWN THEN 0
    ELSE IF action = UP /\ workload.spec.replicas = 0 THEN before_down_replicas(workload)
    ELSE workload.spec.replicas

metadata_patch_on_every_down(action, workload) ==
    IF action = DOWN
    THEN "metadata" :> [annotations |-> Annotated(str(workload.spec.replicas))]
    ELSE EmptyDict

metadata_patch_on_every_action(action, workload) ==
    IF action \in NamespaceAction
    THEN "metadata" :> [annotations |-> Annotated(str(workload.spec.replicas))]
    ELSE EmptyDict

metadata_patch(action, workload) ==
    IF /\ action = DOWN
       /\ \/ workload.spec.replicas > 0
          \/ updown_annotation \notin DOMAIN workload.metadata.annotations
    THEN "metadata" :> [annotations |-> Annotated(str(workload.spec.replicas))]
    ELSE EmptyDict

spec_patch_on_up_only(action, workload) ==
    IF action = UP /\ workload.spec.replicas # desired_replicas(action, workload)
    THEN "spec" :> [replicas |-> desired_replicas(action, workload)]
    ELSE EmptyDict

spec_patch(action, workload) ==
    IF workload.spec.replicas # desired_replicas(action, workload)
    THEN "spec" :> [replicas |-> desired_replicas(action, workload)]
    ELSE EmptyDict

build_patch(action, workload) ==
    metadata_patch(action, workload) @@ spec_patch(action, workload)

\* The outcome of one call: "raised" (ValueError out of line 174, nothing
\* built), "intact" (empty patch, no client call), "failed" (the client call
\* raised and was logged) or "scaled" (the client call went through).
modify_workload(action, workload, updater_fails) ==
    IF raises_ValueError(workload)
    THEN [outcome |-> "raised", patch |-> EmptyDict]
    ELSE LET patch == build_patch(action, workload)
         IN  [outcome |-> IF DOMAIN patch = {} THEN "intact"
                          ELSE IF updater_fails THEN "failed"
                          ELSE "scaled",
              patch |-> patch]

\* The cluster after the call.
cluster_after(c, kind, workload, result) ==
    IF result.outcome = "scaled"
    THEN patch_namespaced(c, kind, workload.metadata.name,
                          workload.metadata.namespace, result.patch)
    ELSE c

(***************************************************************************)
(* SpecTransition: modify_workload applied again and again to one          *)
(* Deployment, each time on a fresh listing, the client failing at will.   *)
(***************************************************************************)
AnnotationInputs ==
    {EmptyDict, Annotated(<<"2">>), Annotated(<<"1", "0">>), Annotated(<<"0", "3">>),
     Annotated(<<"x">>), Annotated(<<>>)}

TransitionInit ==
    /\ all_namespaces = <<team_b>>
    /\ \E r \in 0..MaxReplicas, a \in AnnotationInputs :
          cluster = [NoWorkloads EXCEPT !["Deployment"][team_b] =
                        <<Workload(team_b, "web", r, a)>>]
    /\ scale_up_counters = EmptyDict
    /\ calls = <<>>
    /\ waits = <<>>
    /\ query = <<>>
    /\ pc = "idle"
    /\ frame = <<>>
    /\ trace = <<>>
    /\ throttle_trace = <<>>
    /\ parked = <<>>
    /\ budget = <<>>
    /\ ns_state_cache = EmptyDict
    /\ ns_state_cache_update_time = EmptyDict
    /\ now = 0
    /\ readers = <<>>

Transition(action, updater_fails) ==
    /\ Len(calls) < MaxCalls
    /\ LET workload == list_namespaced("Deployment", team_b)[1]
           result == modify_workload(action, workload, updater_fails)
           after == cluster_after(cluster, "Deployment", workload, result)
       IN  /\ cluster' = after
           /\ calls' = Append(calls,
                  [action |-> action, before |-> workload, patch |-> result.patch,
                   outcome |-> result.outcome, after |-> after["Deployment"][team_b][1]])
    /\ UNCHANGED <<all_namespaces, scale_up_counters, waits, query>>
    /\ UNCHANGED NoInvocation

TransitionNext == \E action \in NamespaceAction, updater_fails \in BOOLEAN :
    Transition(action, updater_fails)

SpecTransition == TransitionInit /\ [][TransitionNext]_vars

(***************************************************************************)
(* Claims about modify_workload, checked under SpecTransition.             *)
(***************************************************************************)
HasAnnotation(w) == updown_annotation \in DOMAIN w.metadata.annotations

AnnotationOf(w) == w.metadata.annotations[updown_annotation]

NonZeroNumber(w) ==
    /\ HasAnnotation(w)
    /\ is_int_literal(AnnotationOf(w))
    /\ int(AnnotationOf(w)) # 0

Malformed(w) == HasAnnotation(w) /\ ~is_int_literal(AnnotationOf(w))

\* Call i is a DOWN of a workload running N > 0 replicas with no annotation,
\* and the next call is an UP.
DownThenUp(i) ==
    /\ i + 1 <= Len(calls)
    /\ calls[i].action = DOWN
    /\ calls[i].before.spec.replicas > 0
    /\ ~HasAnnotation(calls[i].before)
    /\ calls[i + 1].action = UP

\* C1 as stated: DOWN then UP of a workload running N > 0 replicas with no
\* annotation leaves it at N replicas, whatever the client does.
C1_DownUpRestores_AsStated ==
    \A i \in 1..Len(calls) :
        DownThenUp(i) =>
            calls[i + 1].after.spec.replicas = calls[i].before.spec.replicas

\* C1 amended: DOWN then UP of a workload running N > 0 replicas with no
\* annotation leaves it at N replicas, unless the client call of the UP fails.
C1_DownUpRestores ==
    \A i \in 1..Len(calls) :
        (DownThenUp(i) /\ calls[i + 1].outcome # "failed") =>
            calls[i + 1].after.spec.replicas = calls[i].before.spec.replicas

\* A workload of ten replicas or more was stopped by DOWN and restored by UP.
C1_Witness ==
    \E i \in 1..Len(calls) :
        /\ DownThenUp(i)
        /\ calls[i].before.spec.replicas >= 10
        /\ calls[i].outcome = "scaled"
        /\ calls[i].after.spec.replicas = 0
        /\ calls[i + 1].outcome = "scaled"
        /\ calls[i + 1].after.spec.replicas = calls[i].before.spec.replicas

\* Calls i and i+1 are both DOWN and the annotation holds a non-zero number
\* after call i.
DownTwice(i) ==
    /\ i + 1 <= Len(calls)
    /\ calls[i].action = DOWN
    /\ calls[i + 1].action = DOWN
    /\ NonZeroNumber(calls[i].after)

\* A DOWN of a stopped workload whose annotation is present leaves the
\* annotation as it is.
DownOfStoppedKeepsAnnotation ==
    \A i \in 1..Len(calls) :
        (/\ calls[i].action = DOWN
         /\ calls[i].before.spec.replicas = 0
         /\ HasAnnotation(calls[i].before)) =>
            calls[i].after.metadata.annotations = calls[i].before.metadata.annotations

\* C2 as stated: once the annotation holds a non-zero number, the second of
\* two DOWNs in a row leaves the annotation unchanged, and a DOWN of a stopped
\* workload whose annotation is present never overwrites it.
C2_SecondDownKeepsAnnotation_AsStated ==
    /\ \A i \in 1..Len(calls) :
          DownTwice(i) =>
              calls[i + 1].after.metadata.annotations = calls[i].after.metadata.annotations
    /\ DownOfStoppedKeepsAnnotation

\* C2 amended: once the annotation holds a non-zero number after a DOWN whose
\* client call did not fail, the next DOWN in a row leaves the annotation
\* unchanged; and a DOWN of a stopped workload whose annotation is present
\* never overwrites it.
C2_SecondDownKeepsAnnotation ==
    /\ \A i \in 1..Len(calls) :
          (DownTwice(i) /\ calls[i].outcome # "failed") =>
              calls[i + 1].after.metadata.annotations = calls[i].after.metadata.annotations
    /\ DownOfStoppedKeepsAnnotation

\* A running workload was stopped by DOWN, which saved its replicas, and a
\* second DOWN found it stopped and sent nothing.
C2_Witness ==
    \E i \in 1..Len(calls) :
        /\ DownTwice(i)
        /\ calls[i].before.spec.replicas > 0
        /\ calls[i].outcome = "scaled"
        /\ calls[i + 1].before.spec.replicas = 0
        /\ calls[i + 1].outcome = "intact"
        /\ calls[i + 1].after.metadata.annotations = Annotated(str(calls[i].before.spec.replicas))

\* C3: UP of a workload with replicas > 0 is a no-op: the call builds an
\* empty patch, makes no client call and leaves the workload as it was.
C3_UpOfRunningIsNoOp ==
    \A i \in 1..Len(calls) :
        (calls[i].action = UP /\ calls[i].before.spec.replicas > 0) =>
            /\ calls[i].outcome = "intact"
            /\ DOMAIN calls[i].patch = {}
            /\ calls[i].after = calls[i].before

\* C4, for the calls that did not raise: UP of a stopped workload, unless the
\* client call fails, leaves it running, at the annotation's integer or at 1
\* when there is no annotation.
C4_UpOfStoppedRuns ==
    \A i \in 1..Len(calls) :
        (/\ calls[i].action = UP
         /\ calls[i].before.spec.replicas = 0
         /\ calls[i].outcome \notin {"failed", "raised"}) =>
            /\ calls[i].after.spec.replicas > 0
            /\ calls[i].after.spec.replicas = before_down_replicas(calls[i].before)

\* C5: a workload whose annotation is not a decimal integer does not make
\* modify_workload raise, in either direction, and an UP of such a stopped
\* workload restores 1 replica unless the client call fails.
C5_MalformedAnnotationTolerated ==
    \A i \in 1..Len(calls) :
        Malformed(calls[i].before) =>
            /\ calls[i].outcome # "raised"
            /\ (/\ calls[i].action = UP
                /\ calls[i].before.spec.replicas = 0
                /\ calls[i].outcome # "failed") => calls[i].after.spec.replicas = 1

\* Calls i and i+1 apply the same action, the second on a fresh listing.
SameActionTwice(i) ==
    /\ i + 1 <= Len(calls)
    /\ calls[i + 1].action = calls[i].action

\* C13: the same action applied twice in a row, the client call of the first
\* application not failing, leaves the replica count and the annotation as the
\* first application left them, and the second application builds an empty
\* patch and makes no client call.
C13_SameActionTwiceIsOnce ==
    \A i \in 1..Len(calls) :
        (SameActionTwice(i) /\ calls[i].outcome # "failed") =>
            /\ calls[i + 1].outcome = "intact"
            /\ DOMAIN calls[i + 1].patch = {}
            /\ calls[i + 1].after = calls[i].after

\* What does hold: the same for the workloads that modify_workload accepts.
SameActionTwiceIsOnceUnlessRaised ==
    \A i \in 1..Len(calls) :
        (/\ SameActionTwice(i)
         /\ calls[i].outcome \notin {"failed", "raised"}) =>
            /\ calls[i + 1].outcome = "intact"
            /\ DOMAIN calls[i + 1].patch = {}
            /\ calls[i + 1].after = calls[i].after

\* C18: a patch built by modify_workload(UP) holds nothing but spec.replicas,
\* and the annotations after an UP are the annotations before it.
C18_UpKeepsAnnotation ==
    \A i \in 1..Len(calls) :
        calls[i].action = UP =>
            /\ DOMAIN calls[i].patch \subseteq {"spec"}
            /\ calls[i].after.metadata.annotations = calls[i].before.metadata.annotations

\* An UP restored a stopped workload to the ten replicas of its annotation and
\* the annotation is still "10".
C18_Witness ==
    \E i \in 1..Len(calls) :
        /\ calls[i].action = UP
        /\ calls[i].before.spec.replicas = 0
        /\ calls[i].before.metadata.annotations = Annotated(<<"1", "0">>)
        /\ calls[i].outcome = "scaled"
        /\ calls[i].after.spec.replicas = 10
        /\ calls[i].after.metadata.annotations = Annotated(<<"1", "0">>)

(***************************************************************************)
(* wait_on_batch_full, lines 32-38.                                        *)
(***************************************************************************)
\* Line 34: scale_up_counters[ns] = scale_up_counters.get(ns, 0) + 1
incremented(counters, ns) ==
    [k \in DOMAIN counters \cup {ns} |->
        IF k = ns THEN (IF ns \in DOMAIN counters THEN counters[ns] ELSE 0) + 1
        ELSE counters[k]]

batch_full_at_batch_size(counters, ns, batch_size, batch_interval) ==
    counters[ns] >= batch_size /\ batch_interval > 0

\* Line 35, read after the increment.
batch_full(counters, ns, batch_size, batch_interval) ==
    counters[ns] > batch_size /\ batch_interval > 0

reset_to_zero(counters, ns) == [counters EXCEPT ![ns] = 0]

\* Line 38, after time.sleep returned.
reset(counters, ns) == [counters EXCEPT ![ns] = 1]

(***************************************************************************)
(* SpecThrottle: a driver that calls wait_on_batch_full for two namespaces *)
(* with one batch size and one interval, from counters that are absent or  *)
(* left by earlier calls. A call that sleeps blocks the driver until       *)
(* time.sleep returns.                                                     *)
(***************************************************************************)
ThrottledNamespaces == {team_a_dev, team_b}

BatchIntervals == {0, 5}

StartCounters ==
    UNION {[d -> 1..MaxStartCounter] : d \in SUBSET ThrottledNamespaces}

ThrottleInit ==
    /\ all_namespaces = <<team_a_dev, team_b>>
    /\ cluster = NoWorkloads
    /\ scale_up_counters \in StartCounters
    /\ \E batch_size \in 0..MaxBatchSize, batch_interval \in BatchIntervals :
          waits = [batch_size |-> batch_size, batch_interval |-> batch_interval,
                   start |-> scale_up_counters,
                   log |-> [ns \in ThrottledNamespaces |-> <<>>],
                   sleeping |-> <<>>]
    /\ calls = <<>>
    /\ query = <<>>
    /\ pc = "idle"
    /\ frame = <<>>
    /\ trace = <<>>
    /\ throttle_trace = <<>>
    /\ parked = <<>>
    /\ budget = <<>>
    /\ ns_state_cache = EmptyDict
    /\ ns_state_cache_update_time = EmptyDict
    /\ now = 0
    /\ readers = <<>>

\* Lines 34-37: the increment and the test; log[ns][k] says whether call k
\* for ns went to sleep.
WaitCall(ns) ==
    /\ waits.sleeping = <<>>
    /\ Len(waits.log[ns]) < MaxWaitCalls
    /\ scale_up_counters' = incremented(scale_up_counters, ns)
    /\ LET full == batch_full(scale_up_counters', ns, waits.batch_size, waits.batch_interval)
       IN  waits' = [waits EXCEPT !.log[ns] = Append(@, full),
                                  !.sleeping = IF full THEN <<ns>> ELSE <<>>]
    /\ UNCHANGED <<cluster, all_namespaces, calls, query>>
    /\ UNCHANGED NoInvocation

\* Line 38: time.sleep returned.
WaitWake ==
    /\ waits.sleeping # <<>>
    /\ scale_up_counters' = reset(scale_up_counters, waits.sleeping[1])
    /\ waits' = [waits EXCEPT !.sleeping = <<>>]
    /\ UNCHANGED <<cluster, all_namespaces, calls, query>>
    /\ UNCHANGED NoInvocation

ThrottleNext == (\E ns \in ThrottledNamespaces : WaitCall(ns)) \/ WaitWake

SpecThrottle == ThrottleInit /\ [][ThrottleNext]_vars

(***************************************************************************)
(* Claims about wait_on_batch_full, checked under SpecThrottle.            *)
(***************************************************************************)
\* C7: with batch_size = 0 or batch_interval = 0 no call of
\* wait_on_batch_full sleeps, whatever the counter was before.
C7_NoPauseWhenUnbatched ==
    (waits.batch_size = 0 \/ waits.batch_interval = 0) =>
        \A ns \in ThrottledNamespaces :
            \A k \in 1..Len(waits.log[ns]) : ~waits.log[ns][k]

\* C8: for a namespace whose counter starts absent, with batch_size = B >= 1
\* and batch_interval > 0, call k sleeps exactly when k = B+1, 2B+1, 3B+1, ...
C8_PauseEveryBatch ==
    \A ns \in ThrottledNamespaces :
        (/\ ns \notin DOMAIN waits.start
         /\ waits.batch_size >= 1
         /\ waits.batch_interval > 0) =>
            \A k \in 1..Len(waits.log[ns]) :
                waits.log[ns][k] <=> (k > waits.batch_size /\ (k - 1) % waits.batch_size = 0)

\* batch_size = 2, batch_interval = 5: calls 1, 2 and 4 returned at once,
\* calls 3 and 5 slept, and the fifth sleep is over (the counter is back to 1).
C8_Witness ==
    /\ waits.batch_size = 2
    /\ waits.batch_interval = 5
    /\ team_b \notin DOMAIN waits.start
    /\ waits.log[team_b] = <<FALSE, FALSE, TRUE, FALSE, TRUE>>
    /\ waits.sleeping = <<>>
    /\ scale_up_counters[team_b] = 1

(***************************************************************************)
(* re.compile(f"^{pattern}$").match(n), lines 120-121, for patterns made   *)
(* of literal characters, ".", a postfix "*" and "|". As in the re module  *)
(* "|" binds loosest and splits the whole anchored string into             *)
(* alternatives; match() tries each alternative at the start of the text   *)
(* and does not ask that it reaches the end of the text.                   *)
(***************************************************************************)
anchored(pattern) == <<"^">> \o pattern \o <<"$">>

atom_matches(atom, c) == atom = "." \/ atom = c

\* Whether the alternative of regex that goes on at position r matches a
\* stretch of text that starts at position j (the whole rest of the text,
\* when whole is set). An atom is one character, "*" after it repeats it.
RECURSIVE match_here(_, _, _, _, _)
match_here(regex, r, text, j, whole) ==
    IF r > Len(regex) \/ regex[r] = "|" THEN ~whole \/ j = Len(text) + 1
    ELSE IF regex[r] = "^" THEN j = 1 /\ match_here(regex, r + 1, text, j, whole)
    ELSE IF regex[r] = "$" THEN j = Len(text) + 1 /\ match_here(regex, r + 1, text, j, whole)
    ELSE IF r + 1 <= Len(regex) /\ regex[r + 1] = "*"
         THEN \E n \in 0..(Len(text) + 1 - j) :
                 /\ \A k \in j..(j + n - 1) : atom_matches(regex[r], text[k])
                 /\ match_here(regex, r + 2, text, j + n, whole)
         ELSE /\ j <= Len(text)
              /\ atom_matches(regex[r], text[j])
              /\ match_here(regex, r + 1, text, j + 1, whole)

\* An alternative starts at the start of the regex and after each "|".
starts_alternative(regex, r) == r = 1 \/ regex[r - 1] = "|"

\* re.compile(regex).match(text): some alternative matches at the start of
\* the text.
re_match(regex, text) ==
    \E rx \in {regex} :
        \E r \in 1..(Len(rx) + 1) :
            starts_alternative(rx, r) /\ match_here(rx, r, text, 1, FALSE)

(***************************************************************************)
(* resolve_namespaces, lines 114-123.                                      *)
(***************************************************************************)
\* Lines 120-121: the names the anchored pattern matches, in listing order.
matching_namespaces(pattern, all) ==
    SelectSeq(all, LAMBDA n : re_match(anchored(pattern), n))

\* Lines 118-123: the loop over the patterns, extending resolved_namespaces.
RECURSIVE resolve_loop(_, _, _)
resolve_loop(namespaces, all, resolved_namespaces) ==
    IF namespaces = <<>> THEN resolved_namespaces
    ELSE resolve_loop(Tail(namespaces), all,
                      resolved_namespaces \o matching_namespaces(Head(namespaces), all))

resolve_namespaces(namespaces) == resolve_loop(namespaces, all_namespaces, <<>>)

(***************************************************************************)
(* SpecResolve: one call of resolve_namespaces on a list of patterns over  *)
(* a namespace listing.                                                    *)
(***************************************************************************)
Patterns ==
    {<<"t", "e", "a", "m", "-", "a", "-", ".", "*">>,
     <<"t", "e", "a", "m", "-", "a", "-", "p", "r", "o", "d">>,
     <<"t", "e", "a", "m", "-", "b">>,
     <<".", "*">>,
     <<"t", "e", "a", "m", "-", "a", "|", "t", "e", "a", "m", "-", "b">>,
     <<"t", "e", "a", "m", "-", ".", "-", "d", "e", "v">>}

RECURSIVE SeqsUpTo(_, _)
SeqsUpTo(S, n) ==
    IF n = 0 THEN {<<>>}
    ELSE SeqsUpTo(S, n - 1) \cup {Append(q, x) : q \in SeqsUpTo(S, n - 1), x \in S}

Listings ==
    {<<team_a_dev, team_a_prod, team_b>>, <<team_b, team_a_prod, team_a_dev>>,
     <<team_a_dev, team_b>>, <<>>}

ResolveInit ==
    /\ all_namespaces \in Listings
    /\ cluster = NoWorkloads
    /\ scale_up_counters = EmptyDict
    /\ \E namespaces \in SeqsUpTo(Patterns, MaxPatterns) :
          query = [namespaces |-> namespaces, returned |-> FALSE, result |-> <<>>]
    /\ calls = <<>>
    /\ waits = <<>>
    /\ pc = "idle"
    /\ frame = <<>>
    /\ trace = <<>>
    /\ throttle_trace = <<>>
    /\ parked = <<>>
    /\ budget = <<>>
    /\ ns_state_cache = EmptyDict
    /\ ns_state_cache_update_time = EmptyDict
    /\ now = 0
    /\ readers = <<>>

Resolve ==
    /\ ~query.returned
    /\ query' = [query EXCEPT !.returned = TRUE,
                              !.result = resolve_namespaces(query.namespaces)]
    /\ UNCHANGED <<cluster, all_namespaces, scale_up_counters, calls, waits>>
    /\ UNCHANGED NoInvocation

ResolveNext == Resolve

SpecResolve == ResolveInit /\ [][ResolveNext]_vars

(***************************************************************************)
(* Claims about resolve_namespaces, checked under SpecResolve.             *)
(***************************************************************************)
\* The pattern matches the whole of the name: one of its alternatives does.
fully_matches(pattern, name) ==
    \E r \in 1..(Len(pattern) + 1) :
        starts_alternative(pattern, r) /\ match_here(pattern, r, name, 1, TRUE)

\* The names that fully match each pattern, pattern by pattern and in listing
\* order within a pattern, each as often as patterns match it.
FullMatchesInOrder(namespaces, all) ==
    LET n == Len(all)
        grid == [k \in 1..(Len(namespaces) * n) |-> <<((k - 1) \div n) + 1, ((k - 1) % n) + 1>>]
        kept == SelectSeq(grid, LAMBDA p : fully_matches(namespaces[p[1]], all[p[2]]))
    IN  [k \in 1..Len(kept) |-> all[kept[k][2]]]

HasAlternation(namespaces) ==
    \E i \in 1..Len(namespaces) : \E j \in 1..Len(namespaces[i]) : namespaces[i][j] = "|"

\* C9: resolve_namespaces(patterns) is the concatenation, in pattern order, of
\* the existing names that fully match each pattern, each per-pattern list in
\* listing order and not deduplicated.
C9_ResolveIsFullMatchesInOrder ==
    query.returned => query.result = FullMatchesInOrder(query.namespaces, all_namespaces)

\* What does hold: the same for the pattern lists in which no "|" occurs.
ResolveWithoutAlternation ==
    (query.returned /\ ~HasAlternation(query.namespaces)) =>
        query.result = FullMatchesInOrder(query.namespaces, all_namespaces)

\* The example of the specification: [team-a-.*, team-a-prod] over
\* team-a-dev, team-a-prod, team-b gives [team-a-dev, team-a-prod, team-a-prod].
ResolveExample ==
    /\ query.returned
    /\ query.namespaces = <<<<"t", "e", "a", "m", "-", "a", "-", ".", "*">>, <<"t", "e", "a", "m", "-", "a", "-", "p", "r", "o", "d">>>>
    /\ all_namespaces = <<team_a_dev, team_a_prod, team_b>>
    /\ query.result = <<team_a_dev, team_a_prod, team_a_prod>>

(***************************************************************************)
(* up and down, lines 41-89, one step per loop iteration. The invocation   *)
(* runs alone: neither coroutine awaits, and time.sleep blocks the thread. *)
(* pc is the line the invocation stands at.                                *)
(***************************************************************************)
reversed_not(resolved) == resolved

\* reversed(...) of line 80.
reversed(resolved) == [i \in 1..Len(resolved) |-> resolved[Len(resolved) + 1 - i]]

CallPatterns ==
    {<<<<"t", "e", "a", "m", "-", "a", "-", ".", "*">>,
       <<"t", "e", "a", "m", "-", "a", "-", "p", "r", "o", "d">>>>,
     <<<<".", "*">>>>}

InitialWorkloads ==
    {<<2, EmptyDict>>, <<0, Annotated(<<"3">>)>>, <<0, Annotated(<<"x">>)>>}

Init ==
    /\ all_namespaces = <<team_a_dev, team_a_prod, team_b>>
    /\ \E db, api, prod_web \in InitialWorkloads, web \in {<<2, EmptyDict>>} :
          cluster = [NoWorkloads EXCEPT
                        !["StatefulSet"][team_a_dev] =
                            <<Workload(team_a_dev, "db", db[1], db[2])>>,
                        !["Deployment"][team_a_dev] =
                            <<Workload(team_a_dev, "api", api[1], api[2]),
                              Workload(team_a_dev, "web", web[1], web[2])>>,
                        !["Deployment"][team_a_prod] =
                            <<Workload(team_a_prod, "web", prod_web[1], prod_web[2])>>]
    /\ scale_up_counters = EmptyDict
    /\ calls = <<>>
    /\ waits = <<>>
    /\ query = <<>>
    /\ pc = "idle"
    /\ frame = <<>>
    /\ trace = <<>>
    /\ throttle_trace = <<>>
    /\ parked = <<>>
    /\ budget = [invocations |-> MaxInvocations, failures |-> MaxFailures]
    /\ ns_state_cache = EmptyDict
    /\ ns_state_cache_update_time = EmptyDict
    /\ now = 0
    /\ readers = <<>>

Untouched == <<all_namespaces, calls, waits, query, parked, NoGetState>>

NewFrame(fn, namespaces, batch_size, batch_timeout, resolved) ==
    [fn |-> fn, namespaces |-> namespaces, batch_size |-> batch_size,
     batch_timeout |-> batch_timeout, resolved |-> resolved, k |-> 0, ns |-> <<>>,
     deployments |-> <<>>, stateful_sets |-> <<>>, i |-> 0]

\* up(namespaces, batch_size, batch_timeout) is called: line 55 evaluates
\* resolve_namespaces(namespaces).
CallUp(namespaces, batch_size, batch_timeout) ==
    /\ pc \in {"idle", "returned", "raised"}
    /\ budget.invocations > 0
    /\ budget' = [budget EXCEPT !.invocations = @ - 1]
    /\ frame' = NewFrame(UP, namespaces, batch_size, batch_timeout,
                         resolve_namespaces(namespaces))
    /\ trace' = <<>>
    /\ throttle_trace' = <<>>
    /\ pc' = "up_55"
    /\ UNCHANGED <<cluster, scale_up_counters>>
    /\ UNCHANGED Untouched

\* down(namespaces) is called: line 80 evaluates
\* reversed(resolve_namespaces(namespaces)).
CallDown(namespaces) ==
    /\ pc \in {"idle", "returned", "raised"}
    /\ budget.invocations > 0
    /\ budget' = [budget EXCEPT !.invocations = @ - 1]
    /\ frame' = NewFrame(DOWN, namespaces, 0, 0, reversed(resolve_namespaces(namespaces)))
    /\ trace' = <<>>
    /\ throttle_trace' = <<>>
    /\ pc' = "down_80"
    /\ UNCHANGED <<cluster, scale_up_counters>>
    /\ UNCHANGED Untouched

\* The head of the loop over the namespaces and the two listings that open
\* its body (lines 55-57 and 80-84), or the return when the loop is over.
NextNamespace(at, body) ==
    /\ pc = at
    /\ IF frame.k < Len(frame.resolved)
       THEN LET ns == frame.resolved[frame.k + 1]
            IN  /\ frame' = [frame EXCEPT !.k = @ + 1, !.ns = ns, !.i = 0,
                                !.deployments = list_namespaced("Deployment", ns),
                                !.stateful_sets = list_namespaced("StatefulSet", ns)]
                /\ pc' = body
       ELSE /\ pc' = "returned"
            /\ frame' = frame
    /\ UNCHANGED <<cluster, scale_up_counters, trace, throttle_trace, budget>>
    /\ UNCHANGED Untouched

\* The head of a loop over listed workloads: the next item, or on to what
\* follows the loop.
NextItem(at, items_listed, body, after) ==
    /\ pc = at
    /\ IF frame.i < Len(items_listed)
       THEN /\ frame' = [frame EXCEPT !.i = @ + 1]
            /\ pc' = body
       ELSE /\ frame' = [frame EXCEPT !.i = 0]
            /\ pc' = after
    /\ UNCHANGED <<cluster, scale_up_counters, trace, throttle_trace, budget>>
    /\ UNCHANGED Untouched

WaitOnBatchFull_not_called(at, asleep, then) ==
    /\ pc = at
    /\ pc' = then
    /\ UNCHANGED <<cluster, scale_up_counters, frame, trace, throttle_trace, budget>>
    /\ UNCHANGED Untouched

\* wait_on_batch_full(ns, batch_size, batch_timeout) up to time.sleep.
WaitOnBatchFull(at, asleep, then) ==
    /\ pc = at
    /\ scale_up_counters' = incremented(scale_up_counters, frame.ns)
    /\ LET full == batch_full(scale_up_counters', frame.ns, frame.batch_size,
                           frame.batch_timeout)
       IN  /\ pc' = IF full THEN asleep ELSE then
           /\ throttle_trace' = Append(throttle_trace,
                  [namespace |-> frame.ns, before |-> Len(trace) + 1, slept |-> full])
    /\ UNCHANGED <<cluster, frame, trace, budget>>
    /\ UNCHANGED Untouched

\* time.sleep returns and line 38 resets the counter.
Wake(asleep, then) ==
    /\ pc = asleep
    /\ scale_up_counters' = reset(scale_up_counters, frame.ns)
    /\ pc' = then
    /\ UNCHANGED <<cluster, frame, trace, throttle_trace, budget>>
    /\ UNCHANGED Untouched

\* modify_workload(action, workload, kind, updater) on the listed object; a
\* ValueError leaves the loops and the invocation.
Modify(at, action, kind, workload, updater_fails, back) ==
    /\ pc = at
    /\ updater_fails => budget.failures > 0
    /\ LET result == modify_workload(action, workload, updater_fails)
       IN  /\ cluster' = cluster_after(cluster, kind, workload, result)
           /\ trace' = Append(trace,
                  [k |-> frame.k, namespace |-> workload.metadata.namespace, kind |-> kind,
                   name |-> workload.metadata.name, outcome |-> result.outcome,
                   changed |-> cluster' # cluster])
           /\ pc' = IF result.outcome = "raised" THEN "raised" ELSE back
           /\ budget' = [budget EXCEPT !.failures =
                            IF result.outcome = "failed" THEN @ - 1 ELSE @]
    /\ UNCHANGED <<scale_up_counters, frame, throttle_trace>>
    /\ UNCHANGED Untouched

UpNamespace == NextNamespace("up_55", "up_61")

UpStatefulSet == NextItem("up_61", frame.stateful_sets, "up_62", "up_64")

UpStatefulSetWait == WaitOnBatchFull("up_62", "up_62_sleep", "up_63")

UpStatefulSetWake == Wake("up_62_sleep", "up_63")

UpStatefulSetModify(updater_fails) ==
    Modify("up_63", UP, "StatefulSet", frame.stateful_sets[frame.i], updater_fails, "up_61")

UpDeployment == NextItem("up_64", frame.deployments, "up_65", "up_55")

UpDeploymentWait == WaitOnBatchFull("up_65", "up_65_sleep", "up_66")

UpDeploymentWake == Wake("up_65_sleep", "up_66")

UpDeploymentModify(updater_fails) ==
    Modify("up_66", UP, "Deployment", frame.deployments[frame.i], updater_fails, "up_64")

DownNamespace == NextNamespace("down_80", "down_86")

DownDeployment == NextItem("down_86", frame.deployments, "down_87", "down_88")

DownDeploymentModify(updater_fails) ==
    Modify("down_87", DOWN, "Deployment", frame.deployments[frame.i], updater_fails, "down_86")

DownStatefulSet == NextItem("down_88", frame.stateful_sets, "down_89", "down_80")

DownStatefulSetModify(updater_fails) ==
    Modify("down_89", DOWN, "StatefulSet", frame.stateful_sets[frame.i], updater_fails, "down_88")

Next ==
    \/ \E namespaces \in CallPatterns, batch_size \in 0..MaxBatchSize,
          batch_timeout \in BatchIntervals : CallUp(namespaces, batch_size, batch_timeout)
    \/ \E namespaces \in CallPatterns : CallDown(namespaces)
    \/ UpNamespace
    \/ UpStatefulSet
    \/ UpStatefulSetWait
    \/ UpStatefulSetWake
    \/ \E updater_fails \in BOOLEAN : UpStatefulSetModify(updater_fails)
    \/ UpDeployment
    \/ UpDeploymentWait
    \/ UpDeploymentWake
    \/ \E updater_fails \in BOOLEAN : UpDeploymentModify(updater_fails)
    \/ DownNamespace
    \/ DownDeployment
    \/ \E updater_fails \in BOOLEAN : DownDeploymentModify(updater_fails)
    \/ DownStatefulSet
    \/ \E updater_fails \in BOOLEAN : DownStatefulSetModify(updater_fails)

Spec == Init /\ [][Next]_vars

(***************************************************************************)
(* Claims about up and down, checked under Spec.                           *)
(***************************************************************************)
\* The workloads of a kind in a namespace, in listing order, by identity.
Identities(kind, ns) ==
    [i \in 1..Len(cluster[kind][ns]) |->
        [namespace |-> ns, kind |-> kind, name |-> cluster[kind][ns][i].metadata.name]]

\* Namespace by namespace in the order given, StatefulSets first.
RECURSIVE UpOrder(_)
UpOrder(resolved) ==
    IF resolved = <<>> THEN <<>>
    ELSE Identities("StatefulSet", Head(resolved)) \o Identities("Deployment", Head(resolved))
            \o UpOrder(Tail(resolved))

\* Namespace by namespace from the last to the first, Deployments first.
RECURSIVE DownOrder(_)
DownOrder(resolved) ==
    IF resolved = <<>> THEN <<>>
    ELSE LET last == resolved[Len(resolved)]
         IN  Identities("Deployment", last) \o Identities("StatefulSet", last)
                \o DownOrder(SubSeq(resolved, 1, Len(resolved) - 1))

ExpectedOrderOf(resolution) ==
    IF frame.fn = UP THEN UpOrder(resolution) ELSE DownOrder(resolution)

ExpectedOrder == ExpectedOrderOf(resolve_namespaces(frame.namespaces))

TraceIdentities ==
    [p \in 1..Len(trace) |->
        [namespace |-> trace[p].namespace, kind |-> trace[p].kind, name |-> trace[p].name]]

IsPrefix(s, t) == Len(s) <= Len(t) /\ SubSeq(t, 1, Len(s)) = s

\* C6: a client failure on one workload is not propagated, leaves that
\* workload as it was, and every later workload of the invocation is still
\* transitioned, each once.
C6_ClientFailureSkipsOneWorkloadOnly ==
    (pc # "idle" /\ \E p \in 1..Len(trace) : trace[p].outcome = "failed") =>
        /\ \A p \in 1..Len(trace) : trace[p].outcome = "failed" => ~trace[p].changed
        /\ trace[Len(trace)].outcome = "failed" => pc # "raised"
        /\ pc \in {"returned", "raised"} => TraceIdentities = ExpectedOrder

\* C10: up transitions the resolved namespaces in resolution order,
\* StatefulSets before Deployments; down transitions them in the reverse of
\* that order, Deployments before StatefulSets; a namespace's workloads all
\* come before those of the namespace visited next.
C10_TransitionOrder ==
    pc # "idle" =>
        \A resolution \in {resolve_namespaces(frame.namespaces)} :
        \A expected \in {ExpectedOrderOf(resolution)} :
            /\ IsPrefix(TraceIdentities, expected)
            /\ pc = "returned" => TraceIdentities = expected
            /\ \A p \in 1..Len(trace) :
                  /\ trace[p].namespace =
                        IF frame.fn = UP THEN resolution[trace[p].k]
                        ELSE resolution[Len(resolution) + 1 - trace[p].k]
                  /\ p > 1 => trace[p - 1].k <= trace[p].k

\* down([team-a-.*, team-a-prod]) returned after team-a-prod twice (its
\* Deployment), then team-a-dev: its Deployments, then its StatefulSet.
C10_Witness ==
    /\ pc = "returned"
    /\ frame.fn = DOWN
    /\ resolve_namespaces(frame.namespaces) = <<team_a_dev, team_a_prod, team_a_prod>>
    /\ TraceIdentities =
          <<[namespace |-> team_a_prod, kind |-> "Deployment", name |-> "web"],
            [namespace |-> team_a_prod, kind |-> "Deployment", name |-> "web"],
            [namespace |-> team_a_dev, kind |-> "Deployment", name |-> "api"],
            [namespace |-> team_a_dev, kind |-> "Deployment", name |-> "web"],
            [namespace |-> team_a_dev, kind |-> "StatefulSet", name |-> "db"]>>
    /\ \A p \in 1..Len(trace) : trace[p].outcome \in {"scaled", "intact"}

Sleeping == pc \in {"up_62_sleep", "up_65_sleep"}

\* C20: after down returns without a failed client call, every Deployment and
\* StatefulSet of every resolved namespace has replicas = 0 and carries the
\* annotation, and a later pass over a workload already visited built an empty
\* patch.
C20_DownStopsEverything ==
    (/\ pc = "returned"
     /\ frame.fn = DOWN
     /\ \A p \in 1..Len(trace) : trace[p].outcome # "failed") =>
        /\ \A k \in 1..Len(frame.resolved) : \A kind \in Kinds :
              \A i \in 1..Len(cluster[kind][frame.resolved[k]]) :
                  LET w == cluster[kind][frame.resolved[k]][i]
                  IN  /\ w.spec.replicas = 0
                      /\ updown_annotation \in DOMAIN w.metadata.annotations
        /\ \A p, q \in 1..Len(trace) :
              (p < q /\ TraceIdentities[p] = TraceIdentities[q]) =>
                  trace[q].outcome = "intact"

\* down([team-a-.*, team-a-prod]) returned: team-a-prod's running Deployment
\* was stopped on the first pass and left intact on the second.
C20_Witness ==
    /\ pc = "returned"
    /\ frame.fn = DOWN
    /\ Len(trace) = 5
    /\ trace[1].namespace = team_a_prod /\ trace[1].outcome = "scaled" /\ trace[1].changed
    /\ trace[2].namespace = team_a_prod /\ trace[2].outcome = "intact"
    /\ \A p \in 3..5 : trace[p].outcome = "scaled"
    /\ \A kind \in Kinds : \A i \in 1..Len(cluster[kind][team_a_dev]) :
          cluster[kind][team_a_dev][i].spec.replicas = 0

(***************************************************************************)
(* SpecRuns: up and down called one after the other on a namespace whose   *)
(* workloads all start running. SpecInterleaved: the same with a second    *)
(* invocation on another thread, the two interleaved at the steps of the   *)
(* loops.                                                                  *)
(***************************************************************************)
RunPatterns == {<<team_b>>}

RunningWorkloads == {<<2, EmptyDict>>, <<10, Annotated(<<"3">>)>>}

NotStarted == [pc |-> "idle", frame |-> <<>>, trace |-> <<>>, throttle_trace |-> <<>>]

RunsInit ==
    /\ all_namespaces = <<team_a_dev, team_b>>
    /\ \E db, web \in RunningWorkloads :
          cluster = [NoWorkloads EXCEPT
                        !["StatefulSet"][team_b] = <<Workload(team_b, "db", db[1], db[2])>>,
                        !["Deployment"][team_b] = <<Workload(team_b, "web", web[1], web[2])>>]
    /\ scale_up_counters = EmptyDict
    /\ calls = <<>>
    /\ waits = <<>>
    /\ query = <<>>
    /\ pc = "idle"
    /\ frame = <<>>
    /\ trace = <<>>
    /\ throttle_trace = <<>>
    /\ parked = NotStarted
    /\ budget = [invocations |-> MaxRuns, failures |-> MaxFailures]
    /\ ns_state_cache = EmptyDict
    /\ ns_state_cache_update_time = EmptyDict
    /\ now = 0
    /\ readers = <<>>

\* The thread of the other invocation is scheduled: the running invocation is
\* suspended where it stands and the suspended one goes on.
Switch ==
    /\ pc # parked.pc \/ frame # parked.frame
    /\ parked' = [pc |-> pc, frame |-> frame, trace |-> trace,
                  throttle_trace |-> throttle_trace]
    /\ pc' = parked.pc
    /\ frame' = parked.frame
    /\ trace' = parked.trace
    /\ throttle_trace' = parked.throttle_trace
    /\ UNCHANGED <<cluster, all_namespaces, scale_up_counters, calls, waits, query, budget>>
    /\ UNCHANGED NoGetState

\* The steps of a running invocation.
Steps ==
    \/ UpNamespace
    \/ UpStatefulSet
    \/ UpStatefulSetWait
    \/ UpStatefulSetWake
    \/ \E updater_fails \in BOOLEAN : UpStatefulSetModify(updater_fails)
    \/ UpDeployment
    \/ UpDeploymentWait
    \/ UpDeploymentWake
    \/ \E updater_fails \in BOOLEAN : UpDeploymentModify(updater_fails)
    \/ DownNamespace
    \/ DownDeployment
    \/ \E updater_fails \in BOOLEAN : DownDeploymentModify(updater_fails)
    \/ DownStatefulSet
    \/ \E updater_fails \in BOOLEAN : DownStatefulSetModify(updater_fails)

RunsNext ==
    \/ \E namespaces \in RunPatterns, batch_size \in 0..MaxBatchSize,
          batch_timeout \in BatchIntervals : CallUp(namespaces, batch_size, batch_timeout)
    \/ \E namespaces \in RunPatterns : CallDown(namespaces)
    \/ Steps

SpecRuns == RunsInit /\ [][RunsNext]_vars

InterleavedNext ==
    \/ \E namespaces \in RunPatterns, batch_timeout \in BatchIntervals :
          CallUp(namespaces, 1, batch_timeout)
    \/ \E namespaces \in RunPatterns : CallDown(namespaces)
    \/ Steps
    \/ Switch

SpecInterleaved == RunsInit /\ [][InterleavedNext]_vars

(***************************************************************************)
(* Claims about the throttle over several invocations, checked under       *)
(* SpecRuns.                                                               *)
(***************************************************************************)
CounterOf(counters, ns) == IF ns \in DOMAIN counters THEN counters[ns] ELSE 0

\* The step is a call of wait_on_batch_full, up to its test.
WaitCalled == pc \in {"up_62", "up_65"} /\ pc' # pc

\* The step is the end of a pause.
PauseOver == Sleeping /\ pc' # pc

\* A call of wait_on_batch_full adds one to the counter of its namespace and
\* leaves the others; the end of a pause sets the counter of its namespace to
\* 1; no other step, the call and the return of up and down among them, changes
\* a counter.
CounterSteps ==
    IF WaitCalled
    THEN /\ DOMAIN scale_up_counters' = DOMAIN scale_up_counters \cup {frame.ns}
         /\ \A ns \in DOMAIN scale_up_counters' :
               scale_up_counters'[ns] =
                   CounterOf(scale_up_counters, ns) + (IF ns = frame.ns THEN 1 ELSE 0)
    ELSE IF PauseOver
    THEN /\ DOMAIN scale_up_counters' = DOMAIN scale_up_counters
         /\ \A ns \in DOMAIN scale_up_counters' :
               scale_up_counters'[ns] = IF ns = frame.ns THEN 1 ELSE scale_up_counters[ns]
    ELSE scale_up_counters' = scale_up_counters

\* C14: the batch counter of a namespace changes only in wait_on_batch_full: by
\* one on every call, to 1 when a pause ends, and not when up is called or
\* returns, so that the count one up leaves is the count the next up starts
\* from.
C14_CounterChangesOnlyInThrottle == [][CounterSteps]_vars

\* A second up, with batch_size = 2 and batch_timeout = 5, slept at its first
\* call for team-b: the first up had left the counter at 2.
C14_Witness ==
    /\ budget.invocations = MaxRuns - 2
    /\ pc = "up_62_sleep"
    /\ frame.batch_size = 2
    /\ frame.batch_timeout = 5
    /\ Len(throttle_trace) = 1
    /\ throttle_trace[1].slept
    /\ scale_up_counters[team_b] = 3

\* In up the p-th call of wait_on_batch_full comes after p - 1 transitions, for
\* the namespace of the p-th transition, which is the next thing the invocation
\* does; down makes no call.
ThrottledOncePerWorkload ==
    pc # "idle" =>
        IF frame.fn = UP
        THEN /\ Len(throttle_trace) \in {Len(trace), Len(trace) + 1}
             /\ \A p \in 1..Len(throttle_trace) : throttle_trace[p].before = p
             /\ \A p \in 1..Len(trace) : throttle_trace[p].namespace = trace[p].namespace
             /\ Sleeping =>
                    /\ Len(throttle_trace) = Len(trace) + 1
                    /\ throttle_trace[Len(throttle_trace)].slept
             /\ pc = "returned" =>
                    /\ Len(throttle_trace) = Len(trace)
                    /\ Len(trace) = Len(UpOrder(frame.resolved))
        ELSE throttle_trace = <<>>

\* A step taken during a pause transitions nothing, and a step of down leaves
\* every batch counter as it was.
NoProgressWhilePaused ==
    /\ Sleeping => (trace' = trace /\ cluster' = cluster)
    /\ (pc # "idle" /\ frame.fn = DOWN) => scale_up_counters' = scale_up_counters

\* C15: during up wait_on_batch_full is called exactly once for each listed
\* workload, immediately before its transition, and nothing is transitioned
\* while a pause is in progress; down never calls it and leaves every batch
\* counter unchanged.
C15_ThrottleOncePerWorkload ==
    []ThrottledOncePerWorkload /\ [][NoProgressWhilePaused]_vars

\* The first invocation, up([team-b], batch_size = 1, batch_timeout = 5), has
\* returned after two transitions, each preceded by its call, the second call
\* (the Deployment's) having slept.
C15_Witness ==
    /\ pc = "returned"
    /\ frame.fn = UP
    /\ frame.batch_size = 1
    /\ frame.batch_timeout = 5
    /\ budget.invocations = MaxRuns - 1
    /\ Len(trace) = 2
    /\ trace[1].kind = "StatefulSet" /\ trace[2].kind = "Deployment"
    /\ [p \in 1..Len(throttle_trace) |-> throttle_trace[p].slept] = <<FALSE, TRUE>>
    /\ scale_up_counters = (team_b :> 1)

(***************************************************************************)
(* Claims about the saved replicas under interleaved invocations, checked  *)
(* under SpecInterleaved.                                                  *)
(***************************************************************************)
Places ==
    {<<kind, ns, i>> : kind \in Kinds, ns \in NamespaceNames, i \in 1..2}

Exists(place) == place[3] <= Len(cluster[place[1]][place[2]])

At(c, place) == c[place[1]][place[2]][place[3]]

\* Every annotation is a positive integer and every stopped workload has one.
StoppedHaveRestoreValue ==
    \A place \in Places : Exists(place) =>
        LET w == At(cluster, place)
        IN  /\ w.spec.replicas = 0 => HasAnnotation(w)
            /\ HasAnnotation(w) =>
                   /\ is_int_literal(AnnotationOf(w))
                   /\ int(AnnotationOf(w)) > 0
                   /\ AnnotationOf(w) # <<"0">>

\* A step that stops a workload writes its replica count into the annotation,
\* and the annotation of a stopped workload stays while it is stopped.
StopSavesReplicas ==
    \A place \in Places : Exists(place) =>
        LET w == At(cluster, place)
            after == At(cluster', place)
        IN  after.spec.replicas = 0 =>
                IF w.spec.replicas > 0
                THEN after.metadata.annotations = Annotated(str(w.spec.replicas))
                ELSE after.metadata.annotations = w.metadata.annotations

\* C17: when every workload starts running, with no annotation or a positive
\* one, then whatever up and down invocations run, one after the other or
\* interleaved, and whatever client calls fail, every stopped workload carries
\* an annotation that is a positive integer, the replica count it had when it
\* was stopped, written by the patch that stopped it; no annotation is "0".
C17_StoppedCarryRestoreValue ==
    []StoppedHaveRestoreValue /\ [][StopSavesReplicas]_vars

\* Two invocations are under way, a client call has failed, and the
\* StatefulSet that ran ten replicas with annotation "3" is stopped with
\* annotation "10".
C17_Witness ==
    /\ pc \notin {"idle", "returned", "raised"}
    /\ parked.pc \notin {"idle", "returned", "raised"}
    /\ budget.failures = MaxFailures - 1
    /\ cluster["StatefulSet"][team_b][1].spec.replicas = 0
    /\ cluster["StatefulSet"][team_b][1].metadata.annotations = Annotated(<<"1", "0">>)
    /\ cluster["Deployment"][team_b][1].spec.replicas > 0

(***************************************************************************)
(* get_state, lines 126-169. Quantities are strings in the cluster's       *)
(* notation; parse_quantity turns them into decimal numbers, kept here as  *)
(* whole units and thousandths.                                            *)
(***************************************************************************)
Decimal(units, milli) ==
    [units |-> units + (milli \div 1000), milli |-> milli % 1000]

\* The int 0 that lines 136-137 start from and that .get(..., 0) defaults to.
decimal_zero == Decimal(0, 0)

decimal_add(a, b) == Decimal(a.units + b.units, a.milli + b.milli)

decimal_times_one(a, n) == a

decimal_times(a, n) == Decimal(a.units * n, a.milli * n)

\* The number of digits a quantity starts with.
number_length(quantity) ==
    Cardinality({i \in 1..Len(quantity) : \A j \in 1..i : IsDigit(quantity[j])})

\* What a suffix multiplies the number by ("m" divides it by 1000 instead).
suffix_scale(suffix) ==
    IF suffix = <<"K", "i">> THEN 1024
    ELSE IF suffix = <<"M", "i">> THEN 1024 * 1024
    ELSE IF suffix = <<"k">> THEN 1000
    ELSE IF suffix = <<"M">> THEN 1000 * 1000
    ELSE 1

\* kubernetes.utils.quantity.parse_quantity of a string made of digits and one
\* of the suffixes "", "m", "k", "M", "Ki", "Mi".
parse_quantity(quantity) ==
    LET n == number_length(quantity)
        number == int(SubSeq(quantity, 1, n))
        suffix == SubSeq(quantity, n + 1, Len(quantity))
    IN  IF suffix = <<"m">> THEN Decimal(0, number)
        ELSE Decimal(number * suffix_scale(suffix), 0)

\* parse_quantity(c.resources.requests.get(key, 0)) of lines 142-143.
requested(requests, key) ==
    IF key \in DOMAIN requests THEN parse_quantity(requests[key]) ELSE decimal_zero

\* Lines 140-143: the loop over the containers of workload d.
RECURSIVE sum_containers(_, _, _, _)
sum_containers(containers, d_replicas, cpu, memory) ==
    IF containers = <<>> THEN <<cpu, memory>>
    ELSE LET c == Head(containers)
         IN  IF DOMAIN c.resources.requests # {}
             THEN sum_containers(Tail(containers), d_replicas,
                      decimal_add(cpu, decimal_times(requested(c.resources.requests, "cpu"),
                                                     d_replicas)),
                      decimal_add(memory,
                                  decimal_times(requested(c.resources.requests, "memory"),
                                                d_replicas)))
             ELSE sum_containers(Tail(containers), d_replicas, cpu, memory)

\* Lines 138-145: the loop over the workloads, from the accumulators given.
RECURSIVE sum_workloads(_, _, _, _)
sum_workloads(workloads, replicas, cpu, memory) ==
    IF workloads = <<>> THEN <<replicas, cpu, memory>>
    ELSE LET d == Head(workloads)
             requests == sum_containers(d.spec.template.spec.containers, d.spec.replicas,
                                        cpu, memory)
         IN  sum_workloads(Tail(workloads), replicas + d.spec.replicas,
                           requests[1], requests[2])

\* The local function sum of lines 134-145.
sum(workloads) == sum_workloads(workloads, 0, decimal_zero, decimal_zero)

NamespaceState(pods, cpu, memory) == [pods |-> pods, cpu |-> cpu, memory |-> memory]

\* Lines 161-164, from the two listings.
computed_state(deployments, stateful_sets) ==
    LET d == sum(deployments)
        ss == sum(stateful_sets)
    IN  NamespaceState(d[1] + ss[1], decimal_add(d[2], ss[2]), decimal_add(d[3], ss[3]))

\* The 3 of line 153, in seconds.
ttl == 3

cache_valid_a_second_longer(update_time, time) == update_time + ttl + 1 > time

cache_never_valid(update_time, time) == update_time > time

\* Line 153: ns_state_cache_update_time[ns] + 3 > time.time()
cache_valid(update_time, time) == update_time + ttl > time

\* A workload with the pod template get_state reads.
PodWorkload(ns, name, replicas, annotations, containers) ==
    [metadata |-> [name |-> name, namespace |-> ns, annotations |-> annotations],
     spec |-> [replicas |-> replicas,
               template |-> [spec |-> [containers |-> containers]]]]

Container(requests) == [resources |-> [requests |-> requests]]

\* A thread that has not called get_state yet and may call it left times.
NewReader(left) ==
    [pc |-> "idle", left |-> left, namespaces |-> <<>>, resolved |-> <<>>, k |-> 0,
     ns |-> <<>>, deployments |-> <<>>, stateful_sets |-> <<>>, state |-> EmptyDict,
     returned |-> <<>>, log |-> <<>>]

NoCluster == <<cluster, all_namespaces, scale_up_counters, calls, waits, query>>

\* get_state(namespaces) is called by thread t: line 151 evaluates
\* resolve_namespaces(namespaces), state is empty (line 149).
GetStateCall(t, namespaces) ==
    /\ readers[t].pc \in {"idle", "returned", "KeyError"}
    /\ readers[t].left > 0
    /\ readers' = [readers EXCEPT ![t] =
            [@ EXCEPT !.pc = "151", !.left = @ - 1, !.namespaces = namespaces,
                      !.resolved = resolve_namespaces(namespaces), !.k = 0,
                      !.state = EmptyDict]]
    /\ UNCHANGED <<ns_state_cache, ns_state_cache_update_time, now>>
    /\ UNCHANGED NoCluster
    /\ UNCHANGED NoUpDown

\* What the log keeps of the visit of one namespace: when the cache was
\* looked at and what it held then, what the cluster held then, whether the
\* visit took the cached state, the listing calls it made, the state it put
\* into the result, and when it stored that state.
Visit(ns, hit) ==
    [ns |-> ns, at |-> now, cached |-> ns \in DOMAIN ns_state_cache,
     cache |-> IF ns \in DOMAIN ns_state_cache THEN ns_state_cache[ns] ELSE <<>>,
     update_time |-> IF ns \in DOMAIN ns_state_cache_update_time
                     THEN ns_state_cache_update_time[ns] ELSE -1,
     live |-> computed_state(list_namespaced("Deployment", ns),
                             list_namespaced("StatefulSet", ns)),
     hit |-> hit, listed |-> {}, state |-> <<>>, stored |-> <<>>]

\* The head of the loop of line 151 and the cache test of lines 152-156 for
\* the next namespace, or the return of lines 168-169 when the loop is over.
GetStateNamespace(t) ==
    /\ readers[t].pc = "151"
    /\ LET r == readers[t]
       IN  IF r.k = Len(r.resolved)
           THEN readers' = [readers EXCEPT ![t] =
                    [@ EXCEPT !.pc = "returned", !.returned = r.state]]
           ELSE LET ns == r.resolved[r.k + 1]
                IN  IF ns \notin DOMAIN ns_state_cache
                    THEN readers' = [readers EXCEPT ![t] =
                            [@ EXCEPT !.pc = "158", !.k = @ + 1, !.ns = ns,
                                      !.log = Append(@, Visit(ns, FALSE))]]
                    ELSE IF ns \notin DOMAIN ns_state_cache_update_time
                    THEN readers' = [readers EXCEPT ![t] = [@ EXCEPT !.pc = "KeyError"]]
                    ELSE IF cache_valid(ns_state_cache_update_time[ns], now)
                    THEN readers' = [readers EXCEPT ![t] =
                            [@ EXCEPT !.k = @ + 1, !.ns = ns,
                                      !.state = (ns :> ns_state_cache[ns]) @@ @,
                                      !.log = Append(@, [Visit(ns, TRUE) EXCEPT
                                                  !.state = ns_state_cache[ns]])]]
                    ELSE readers' = [readers EXCEPT ![t] =
                            [@ EXCEPT !.pc = "158", !.k = @ + 1, !.ns = ns,
                                      !.log = Append(@, Visit(ns, FALSE))]]
    /\ UNCHANGED <<ns_state_cache, ns_state_cache_update_time, now>>
    /\ UNCHANGED NoCluster
    /\ UNCHANGED NoUpDown

\* Line 158.
GetStateListDeployments(t) ==
    /\ readers[t].pc = "158"
    /\ readers' = [readers EXCEPT ![t] =
            [@ EXCEPT !.pc = "159",
                      !.deployments = list_namespaced("Deployment", readers[t].ns),
                      !.log[Len(readers[t].log)].listed = @ \cup {"Deployment"}]]
    /\ UNCHANGED <<ns_state_cache, ns_state_cache_update_time, now>>
    /\ UNCHANGED NoCluster
    /\ UNCHANGED NoUpDown

\* Lines 159-164.
GetStateListStatefulSets(t) ==
    /\ readers[t].pc = "159"
    /\ LET r == readers[t]
           stateful_sets == list_namespaced("StatefulSet", r.ns)
       IN  readers' = [readers EXCEPT ![t] =
               [@ EXCEPT !.pc = "165",
                         !.stateful_sets = stateful_sets,
                         !.state = (r.ns :> computed_state(r.deployments, stateful_sets)) @@ @,
                         !.log[Len(r.log)].listed = @ \cup {"StatefulSet"}]]
    /\ UNCHANGED <<ns_state_cache, ns_state_cache_update_time, now>>
    /\ UNCHANGED NoCluster
    /\ UNCHANGED NoUpDown

\* Line 165.
GetStateStore(t) ==
    /\ readers[t].pc = "165"
    /\ ns_state_cache' = (readers[t].ns :> readers[t].state[readers[t].ns]) @@ ns_state_cache
    /\ readers' = [readers EXCEPT ![t] = [@ EXCEPT !.pc = "166"]]
    /\ UNCHANGED <<ns_state_cache_update_time, now>>
    /\ UNCHANGED NoCluster
    /\ UNCHANGED NoUpDown

\* Line 166; the log keeps what the cache holds for the namespace now.
GetStateStamp(t) ==
    /\ readers[t].pc = "166"
    /\ LET r == readers[t]
       IN  /\ ns_state_cache_update_time' = (r.ns :> now) @@ ns_state_cache_update_time
           /\ readers' = [readers EXCEPT ![t] =
                  [@ EXCEPT !.pc = "151",
                            !.log[Len(r.log)].state = r.state[r.ns],
                            !.log[Len(r.log)].stored = <<now>>]]
    /\ UNCHANGED <<ns_state_cache, now>>
    /\ UNCHANGED NoCluster
    /\ UNCHANGED NoUpDown

\* A second passes.
Tick ==
    /\ now < MaxTime
    /\ now' = now + 1
    /\ UNCHANGED <<ns_state_cache, ns_state_cache_update_time, readers>>
    /\ UNCHANGED NoCluster
    /\ UNCHANGED NoUpDown

\* The steps of the get_state invocation of thread t.
GetStateSteps(t) ==
    \/ GetStateNamespace(t)
    \/ GetStateListDeployments(t)
    \/ GetStateListStatefulSets(t)
    \/ GetStateStore(t)
    \/ GetStateStamp(t)

(***************************************************************************)
(* SpecAggregate: one get_state call on a namespace whose Deployment and   *)
(* StatefulSet are drawn from replica counts and containers.               *)
(***************************************************************************)
cpu_500m == <<"5", "0", "0", "m">>
cpu_250m == <<"2", "5", "0", "m">>
cpu_2 == <<"2">>
memory_256Mi == <<"2", "5", "6", "M", "i">>
memory_64Ki == <<"6", "4", "K", "i">>
memory_1000 == <<"1", "0", "0", "0">>

DeploymentContainers ==
    {<<>>,
     <<Container(("cpu" :> cpu_500m) @@ ("memory" :> memory_256Mi))>>,
     <<Container(EmptyDict)>>,
     <<Container("cpu" :> cpu_2), Container("memory" :> memory_64Ki)>>,
     <<Container(("cpu" :> cpu_250m) @@ ("memory" :> memory_1000)),
       Container(("cpu" :> cpu_500m) @@ ("memory" :> memory_64Ki))>>}

StatefulSetContainers ==
    {<<Container(("cpu" :> cpu_250m) @@ ("memory" :> memory_64Ki))>>,
     <<Container("memory" :> memory_1000), Container(EmptyDict)>>}

IdleUpDown ==
    /\ pc = "idle"
    /\ frame = <<>>
    /\ trace = <<>>
    /\ throttle_trace = <<>>
    /\ parked = <<>>
    /\ budget = <<>>

AggregateInit ==
    /\ all_namespaces = <<team_a_dev, team_b>>
    /\ \E d \in 0..MaxPodReplicas, dc \in DeploymentContainers :
       \E ss \in 0..MaxPodReplicas, ssc \in StatefulSetContainers :
       \E has_api \in BOOLEAN, has_db \in BOOLEAN :
          cluster = [NoWorkloads EXCEPT
                        !["Deployment"][team_b] =
                            <<PodWorkload(team_b, "web", d, EmptyDict, dc)>> \o
                            (IF has_api
                             THEN <<PodWorkload(team_b, "api", 2, EmptyDict,
                                                <<Container("cpu" :> cpu_250m)>>)>>
                             ELSE <<>>),
                        !["StatefulSet"][team_b] =
                            IF has_db
                            THEN <<PodWorkload(team_b, "db", ss, EmptyDict, ssc)>>
                            ELSE <<>>]
    /\ scale_up_counters = EmptyDict
    /\ calls = <<>>
    /\ waits = <<>>
    /\ query = <<>>
    /\ IdleUpDown
    /\ ns_state_cache = EmptyDict
    /\ ns_state_cache_update_time = EmptyDict
    /\ now = 0
    /\ readers = <<NewReader(1)>>

AggregateNext == GetStateCall(1, <<team_b>>) \/ GetStateSteps(1)

SpecAggregate == AggregateInit /\ [][AggregateNext]_vars

(***************************************************************************)
(* Claims about the aggregation, checked under SpecAggregate.              *)
(***************************************************************************)
\* What each quantity of the inputs stands for: thousandths of a core, bytes.
Millicores(quantity) ==
    IF quantity = cpu_500m THEN 500
    ELSE IF quantity = cpu_250m THEN 250
    ELSE 2000

Bytes(quantity) ==
    IF quantity = memory_256Mi THEN 268435456
    ELSE IF quantity = memory_64Ki THEN 65536
    ELSE 1000

\* One entry for every container of every Deployment and StatefulSet of the
\* namespace: what it requests, zero for a request it does not make, times the
\* replicas of its workload.
ContainerRequests(ns) ==
    {<<kind, i, j>> \in Kinds \X (1..2) \X (1..2) :
        /\ i <= Len(cluster[kind][ns])
        /\ j <= Len(cluster[kind][ns][i].spec.template.spec.containers)}

RequestOf(ns, at, key) ==
    LET d == cluster[at[1]][ns][at[2]]
        requests == d.spec.template.spec.containers[at[3]].resources.requests
    IN  IF key \notin DOMAIN requests THEN 0
        ELSE d.spec.replicas *
                (IF key = "cpu" THEN Millicores(requests[key]) ELSE Bytes(requests[key]))

RECURSIVE Total(_, _, _)
Total(ns, entries, key) ==
    IF entries = {} THEN 0
    ELSE LET at == CHOOSE e \in entries : TRUE
         IN  RequestOf(ns, at, key) + Total(ns, entries \ {at}, key)

Pods(ns) ==
    LET replicas(kind, i) ==
            IF i <= Len(cluster[kind][ns]) THEN cluster[kind][ns][i].spec.replicas ELSE 0
    IN  replicas("Deployment", 1) + replicas("Deployment", 2)
            + replicas("StatefulSet", 1) + replicas("StatefulSet", 2)

\* C12: the state get_state returns for a namespace not in the cache has
\* pods = the replicas of its Deployments and StatefulSets added up, and cpu
\* and memory = the requests of all their containers, each times the replicas
\* of its workload, added up, a request not made counting zero.
C12_StateIsSumOfRequests ==
    readers[1].pc = "returned" =>
        LET state == readers[1].returned[team_b]
        IN  /\ state.pods = Pods(team_b)
            /\ state.cpu.units * 1000 + state.cpu.milli =
                    Total(team_b, ContainerRequests(team_b), "cpu")
            /\ state.memory.units = Total(team_b, ContainerRequests(team_b), "memory")
            /\ state.memory.milli = 0

\* One Deployment of 3 replicas, one container requesting 500m and 256Mi, no
\* StatefulSet: pods = 3, cpu = 1.5, memory = 768Mi = 805306368.
C12_Witness ==
    /\ readers[1].pc = "returned"
    /\ cluster["StatefulSet"][team_b] = <<>>
    /\ cluster["Deployment"][team_b] =
          <<PodWorkload(team_b, "web", 3, EmptyDict,
                        <<Container(("cpu" :> cpu_500m) @@ ("memory" :> memory_256Mi))>>)>>
    /\ readers[1].returned =
          (team_b :> [pods |-> 3, cpu |-> [units |-> 1, milli |-> 500],
                      memory |-> [units |-> 805306368, milli |-> 0]])

(***************************************************************************)
(* SpecState: one thread calls get_state again and again while time        *)
(* passes, over a cluster that does not change.                            *)
(***************************************************************************)
StatePatterns == {<<team_b>>, <<<<".", "*">>>>}

ObservedCluster ==
    [NoWorkloads EXCEPT
        !["Deployment"][team_b] =
            <<PodWorkload(team_b, "web", 3, EmptyDict,
                          <<Container(("cpu" :> cpu_500m) @@ ("memory" :> memory_256Mi))>>)>>,
        !["StatefulSet"][team_a_dev] =
            <<PodWorkload(team_a_dev, "db", 1, EmptyDict,
                          <<Container(("cpu" :> cpu_250m) @@ ("memory" :> memory_64Ki))>>)>>]

StateInit ==
    /\ all_namespaces = <<team_a_dev, team_b>>
    /\ cluster = ObservedCluster
    /\ scale_up_counters = EmptyDict
    /\ calls = <<>>
    /\ waits = <<>>
    /\ query = <<>>
    /\ IdleUpDown
    /\ ns_state_cache = EmptyDict
    /\ ns_state_cache_update_time = EmptyDict
    /\ now = 0
    /\ readers = <<NewReader(MaxQueries)>>

StateNext ==
    \/ \E namespaces \in StatePatterns : GetStateCall(1, namespaces)
    \/ GetStateSteps(1)
    \/ Tick

SpecState == StateInit /\ [][StateNext]_vars

(***************************************************************************)
(* Claims about the cache, checked under SpecState.                        *)
(***************************************************************************)
\* C11: a visit takes the cached state exactly when the namespace has a cache
\* entry and less than 3 seconds have passed since its timestamp; it then
\* makes no listing call and returns the cached state. Any other visit lists
\* Deployments and StatefulSets, returns the state computed from them and
\* leaves that state and the time of the store in the cache.
C11_CacheHitWithinTtl ==
    LET log == readers[1].log
    IN  \A p \in 1..Len(log) :
            LET e == log[p]
            IN  /\ e.hit <=> (e.cached /\ e.at - e.update_time < 3)
                /\ e.hit =>
                      /\ e.listed = {}
                      /\ e.state = e.cache
                      /\ e.stored = <<>>
                /\ (~e.hit /\ e.stored # <<>>) =>
                      /\ e.listed = Kinds
                      /\ e.state = e.live
                      /\ p = Len(log) =>
                            /\ ns_state_cache[e.ns] = e.state
                            /\ ns_state_cache_update_time[e.ns] = e.stored[1]
                            /\ e.stored[1] >= e.at
                /\ (p = Len(log) /\ readers[1].pc = "returned") =>
                      readers[1].returned[e.ns] = e.state

\* get_state([team-b]) three times: the first call listed, the second came
\* less than 3 seconds after the store and took the cached state, the third
\* came 3 seconds or more after it and listed again.
C11_Witness ==
    LET log == readers[1].log
    IN  /\ readers[1].pc = "returned"
        /\ Len(log) = 3
        /\ \A p \in 1..3 : log[p].ns = team_b
        /\ ~log[1].cached /\ log[1].listed = Kinds
        /\ log[2].hit /\ log[2].listed = {} /\ log[2].at - log[2].update_time = 2
        /\ ~log[3].hit /\ log[3].cached /\ log[3].at - log[3].update_time = 3
        /\ log[3].listed = Kinds
        /\ ns_state_cache_update_time[team_b] = log[3].stored[1]

\* Between the calls of the one thread every cached namespace has a
\* timestamp.
TimestampedBetweenCalls ==
    readers[1].pc \in {"idle", "returned"} =>
        DOMAIN ns_state_cache \subseteq DOMAIN ns_state_cache_update_time

(***************************************************************************)
(* SpecConcurrentState: two threads call get_state, their steps            *)
(* interleaved line by line.                                               *)
(***************************************************************************)
Threads == {1, 2}

ConcurrentStateInit ==
    /\ all_namespaces = <<team_a_dev, team_b>>
    /\ cluster = ObservedCluster
    /\ scale_up_counters = EmptyDict
    /\ calls = <<>>
    /\ waits = <<>>
    /\ query = <<>>
    /\ IdleUpDown
    /\ ns_state_cache = EmptyDict
    /\ ns_state_cache_update_time = EmptyDict
    /\ now = 0
    /\ readers = [t \in Threads |-> NewReader(1)]

ConcurrentStateNext ==
    \/ \E t \in Threads, namespaces \in StatePatterns : GetStateCall(t, namespaces)
    \/ \E t \in Threads : GetStateSteps(t)
    \/ Tick

SpecConcurrentState == ConcurrentStateInit /\ [][ConcurrentStateNext]_vars

\* C16: with get_state running on two threads, every namespace that has an
\* entry in ns_state_cache has one in ns_state_cache_update_time, and no
\* thread's cache test fails on a missing timestamp.
C16_CacheEntriesHaveTimestamps ==
    /\ DOMAIN ns_state_cache \subseteq DOMAIN ns_state_cache_update_time
    /\ \A t \in Threads : readers[t].pc # "KeyError"

(***************************************************************************)
(* SpecObserve: one thread calls get_state while an up or a down runs on   *)
(* another and time passes.                                                *)
(***************************************************************************)
ObserveInit ==
    /\ all_namespaces = <<team_a_dev, team_b>>
    /\ cluster = [NoWorkloads EXCEPT
            !["Deployment"][team_b] =
                <<PodWorkload(team_b, "web", 3, EmptyDict,
                              <<Container(("cpu" :> cpu_500m) @@ ("memory" :> memory_256Mi))>>)>>,
            !["StatefulSet"][team_b] =
                <<PodWorkload(team_b, "db", 1, EmptyDict,
                              <<Container(("cpu" :> cpu_250m) @@ ("memory" :> memory_64Ki))>>)>>]
    /\ scale_up_counters = EmptyDict
    /\ calls = <<>>
    /\ waits = <<>>
    /\ query = <<>>
    /\ pc = "idle"
    /\ frame = <<>>
    /\ trace = <<>>
    /\ throttle_trace = <<>>
    /\ parked = <<>>
    /\ budget = [invocations |-> MaxInvocations, failures |-> MaxFailures]
    /\ ns_state_cache = EmptyDict
    /\ ns_state_cache_update_time = EmptyDict
    /\ now = 0
    /\ readers = <<NewReader(2)>>

ObserveNext ==
    \/ CallUp(<<team_b>>, 0, 5)
    \/ CallDown(<<team_b>>)
    \/ Steps
    \/ GetStateCall(1, <<team_b>>)
    \/ GetStateSteps(1)
    \/ Tick

SpecObserve == ObserveInit /\ [][ObserveNext]_vars

(***************************************************************************)
(* Claims about the cache while up and down run, checked under             *)
(* SpecObserve.                                                            *)
(***************************************************************************)
\* A visit made less than 3 seconds after the timestamp of the namespace's
\* cache entry lists nothing and returns the cached state, whatever the
\* cluster holds by then.
CachedStateServed ==
    LET log == readers[1].log
    IN  \A p \in 1..Len(log) :
            (log[p].cached /\ log[p].at - log[p].update_time < 3) =>
                /\ log[p].hit
                /\ log[p].listed = {}
                /\ log[p].state = log[p].cache

\* A step of up or down leaves the cache and its timestamps as they were.
UpDownKeepsCache ==
    (pc' # pc \/ frame' # frame \/ trace' # trace \/ cluster' # cluster) =>
        /\ ns_state_cache' = ns_state_cache
        /\ ns_state_cache_update_time' = ns_state_cache_update_time

\* C19: up and down never change the state cache or its timestamps, and a
\* get_state issued less than 3 seconds after the previous one of the same
\* namespace returns the cached state even when an up or a down in between
\* changed the replica counts.
C19_UpDownLeaveCacheAlone == []CachedStateServed /\ [][UpDownKeepsCache]_vars

\* The first get_state cached pods = 4; a down then stopped both workloads, and
\* a second get_state, 2 seconds after the first, still returned pods = 4.
C19_Witness ==
    LET log == readers[1].log
    IN  /\ readers[1].pc = "returned"
        /\ pc = "returned"
        /\ frame.fn = DOWN
        /\ Len(log) = 2
        /\ log[2].hit
        /\ log[2].at - log[2].update_time = 2
        /\ log[2].live.pods = 0
        /\ readers[1].returned[team_b].pods = 4
        /\ Pods(team_b) = 0

====
